---- MODULE Spec2Model ----
(***************************************************************************)
(* Model of the acquisition pipeline of pythtocks (src/etl.py):            *)
(*   get_stock_data  - the per-identifier download loop with its retry     *)
(*                     counter and the artifact written per identifier;    *)
(*   merge_dfs       - the outer join of all per-identifier artifacts.     *)
(* src/project.py holds a copy of get_stock_data with the same loop.       *)
(***************************************************************************)
EXTENDS Integers, Sequences, FiniteSets, TLC

\* ---------------------------------------------------------------- bounds
MaxTickers == 3
MaxRetries == 3
MaxRuns == 2
MaxIds == 2
MaxDate == 3

\* ------------------------------------------------ values of the model
\* Identifiers are numbered in lexicographic order: 1 = "AAA", 2 = "BBB", ...
Identifier == 1..MaxTickers

\* A table returned by web.DataReader: the identifier it was asked for and
\* the run in which the call was made.  Unbound is the local name df before
\* any assignment.
Unbound == [ticker |-> 0, run |-> 0]

\* A file {ticker}.csv of the destination folder: absent, opened for
\* writing but not yet fully written (partial), or fully written.
NoFile == [table |-> Unbound, state |-> "absent"]

\* The identifier file holds the universe sorted (save_tickers sorts it):
\* every ascending sequence of distinct identifiers.
RECURSIVE SortedSeq(_)
SortedSeq(S) ==
    IF S = {} THEN << >>
    ELSE LET m == CHOOSE x \in S : \A y \in S : x <= y
         IN  <<m>> \o SortedSeq(S \ {m})

Universes == { SortedSeq(S) : S \in SUBSET Identifier }

Range(s) == { s[k] : k \in DOMAIN s }

\* No plan recorded for an identifier (it was not fetched in that run).
NoPlan == -1

VARIABLES
    \* ---- get_stock_data
    tickers,        \* the universe read from the identifier file
    max_retries,    \* argument max_retries of the current run
    run,            \* number of the current invocation of get_stock_data
    pc,             \* position of the control in get_stock_data
    idx,            \* position of the for loop in tickers
    retries,        \* the retry counter
    df,             \* the local variable df
    stocks,         \* the destination folder: identifier -> file
    failsBefore,    \* the provider, for the fetch in progress: the number of
                    \* leading attempts it fails before it answers
    \* ---- history of the current run
    calls,          \* identifier -> remote calls made
    sleeps,         \* identifier -> backoff sleeps made
    writes,         \* identifier -> to_csv calls made
    plan,           \* identifier -> failsBefore of its fetch, or NoPlan
    atReach,        \* identifier -> its file when the for loop reached it
    reached,        \* identifiers the for loop has reached
    ended,          \* identifiers whose while loop was left
    \* ---- history across runs
    totalWrites,    \* identifier -> to_csv calls made, all runs
    prevPlan,       \* plan of the previous run
    prevStatus,     \* how the previous run ended
    prevMaxRetries, \* max_retries of the previous run
    atRunStart,     \* the destination folder when the current run began
    \* ---- merge_dfs
    folders,        \* folder -> identifier -> dates of its artifact ({}: no file)
    stock_folder,   \* argument stock_folder
    reload_data,    \* argument reload_data
    merged,         \* the file snp500_merged.csv of save_folder
    mpc,            \* position of the control in merge_dfs
    fnames,         \* the listed file names
    fpos,           \* position of the for loop in fnames
    master_df,      \* the accumulator
    result,         \* what merge_dfs returned
    defect,         \* identifier -> what is wrong with its file in stock_folder
    save_dir,       \* save_folder exists
    listed,         \* os.listdir calls made
    reads,          \* pd.read_csv calls made
    merged0,        \* the merged file when merge_dfs was called
    save_dir0,      \* save_dir when merge_dfs was called
    \* ---- get_snp_tickers, save_tickers
    resp,           \* the response of requests.get
    res_arr,        \* what get_snp_tickers returned
    error,          \* the exception that left get_stock_data, or "none"
    tickers_file,   \* the identifier file tickers.csv
    tickers_file0   \* the identifier file when get_stock_data was called

vars == << tickers, max_retries, run, pc, idx, retries, df, stocks,
           failsBefore, calls, sleeps, writes, plan, atReach, reached, ended,
           totalWrites, prevPlan, prevStatus, prevMaxRetries, atRunStart,
           folders, stock_folder, reload_data, merged, mpc, fnames, fpos,
           master_df, result, defect, save_dir, listed, reads, merged0,
           save_dir0, resp, res_arr, error, tickers_file, tickers_file0 >>

tvars == << resp, res_arr, error, tickers_file, tickers_file0 >>

fvars == << tickers, max_retries, run, pc, idx, retries, df, stocks,
            failsBefore, calls, sleeps, writes, plan, atReach, reached, ended,
            totalWrites, prevPlan, prevStatus, prevMaxRetries, atRunStart >>

mvars == << folders, stock_folder, reload_data, merged, mpc, fnames, fpos,
            master_df, result, defect, save_dir, listed, reads, merged0,
            save_dir0 >>

\* the arguments of merge_dfs and the files it only reads
margs == << folders, stock_folder, reload_data, defect, merged0, save_dir0 >>

\* the variables of get_stock_data other than pc
fvars_but_pc == << tickers, max_retries, run, idx, retries, df, stocks,
                   failsBefore, calls, sleeps, writes, plan, atReach, reached,
                   ended, totalWrites, prevPlan, prevStatus, prevMaxRetries,
                   atRunStart >>

histRun == << calls, sleeps, writes, plan, atReach, reached, ended >>
histAll == << totalWrites, prevPlan, prevStatus, prevMaxRetries, atRunStart >>

Zero == [t \in Identifier |-> 0]

\* the loop variable stays at the first identifier of the universe
tickerFirst == tickers[1]

\* the identifier of the current iteration of the for loop
ticker == tickers[idx]

\* The counts a completed call reports: logging.info writes two fixed lines
\* and the function returns None, so no count is reported.
ReportedCounts == << >>

\* ------------------------------------------------------------------ Init
FetchIdle ==
    /\ max_retries = 0
    /\ run = 0
    /\ pc = "idle"
    /\ idx = 1
    /\ retries = 0
    /\ df = Unbound
    /\ stocks = [t \in Identifier |-> NoFile]
    /\ failsBefore = 0
    /\ calls = Zero
    /\ sleeps = Zero
    /\ writes = Zero
    /\ plan = [t \in Identifier |-> NoPlan]
    /\ atReach = [t \in Identifier |-> NoFile]
    /\ reached = {}
    /\ ended = {}
    /\ totalWrites = Zero
    /\ prevPlan = [t \in Identifier |-> NoPlan]
    /\ prevStatus = "none"
    /\ prevMaxRetries = 0
    /\ atRunStart = [t \in Identifier |-> NoFile]

\* ---------------------------------- get_snp_tickers, save_tickers: values
\* tickers.shape[0] != 505: the size a resolved universe must have.  The
\* model's universe has MaxTickers identifiers where the source has 505.
ExpectedCount == MaxTickers

\* the rows a ticker table of the model can have
MaxRows == ExpectedCount + 1

\* A raw token is the link text of the first cell of a row, a sequence of
\* characters: "A", "B", "AB", "A.B", "A,B"
RawTokens ==
    { <<"A">>, <<"B">>, <<"A", "B">>, <<"A", ".", "B">>, <<"A", ",", "B">> }

\* the code point of a character
CharCode(c) ==
    IF c = "," THEN 44 ELSE IF c = "-" THEN 45 ELSE IF c = "." THEN 46
    ELSE IF c = "A" THEN 65 ELSE 66

\* str.replace(a, b)
Replace(tok, a, b) == [i \in DOMAIN tok |-> IF tok[i] = a THEN b ELSE tok[i]]

\* only the commas are replaced
NormalizeCommaOnly(tok) == Replace(tok, ",", "-")

\* .replace(',', '-').replace('.', '-')
Normalize(tok) == Replace(Replace(tok, ",", "-"), ".", "-")

\* a < b for two strings, as Python compares them
RECURSIVE LexLess(_, _)
LexLess(a, b) ==
    IF b = << >> THEN FALSE
    ELSE IF a = << >> THEN TRUE
    ELSE IF CharCode(Head(a)) # CharCode(Head(b))
         THEN CharCode(Head(a)) < CharCode(Head(b))
    ELSE LexLess(Tail(a), Tail(b))

\* x put into an ascending sequence
RECURSIVE Insert(_, _)
Insert(x, sorted) ==
    IF sorted = << >> THEN <<x>>
    ELSE IF LexLess(x, Head(sorted)) THEN <<x>> \o sorted
    ELSE <<Head(sorted)>> \o Insert(x, Tail(sorted))

RECURSIVE SortAscending(_)
SortAscending(seq) ==
    IF seq = << >> THEN << >>
    ELSE Insert(Head(seq), SortAscending(Tail(seq)))

\* sort_values called without inplace=True: the frame stays as it was
SortValuesNotInPlace(seq) == seq

\* tickers.sort_values(by='Ticker', inplace=True)
SortValues(seq) == SortAscending(seq)

\* the document: its status code and its tables of class 'wikitable
\* sortable', each with the link text of its first header cell and the
\* tokens of its rows after the header row
NoDoc == [status |-> 0, tables |-> << >>]

RowLists == UNION { [1..n -> RawTokens] : n \in 0..MaxRows }

TickerTable(rows) == [header |-> "Ticker symbol", rows |-> rows]

OtherTable == [header |-> "Company", rows |-> << <<"B">> >>]

Docs ==
    { [status |-> st, tables |-> tb] :
        st \in {200, 404},
        tb \in {<< >>, <<OtherTable>>} \cup
               UNION { { <<TickerTable(r)>>, <<OtherTable, TickerTable(r)>>,
                         <<TickerTable(r), OtherTable>> } : r \in RowLists } }

\* the status code is not looked at
StatusOkAny(r) == TRUE

\* resp.status_code != 200 raises
StatusOk(r) == r.status = 200

\* the loop over the tables: res_table is the last table whose first header
\* is 'Ticker symbol'; 0 when the name res_table is never assigned
RECURSIVE ResTable(_, _)
ResTable(tables, n) ==
    IF n = 0 THEN 0
    ELSE IF tables[n].header = "Ticker symbol" THEN n
    ELSE ResTable(tables, n - 1)

\* res_arr: the normalized token of every row of res_table
ResArr(r) ==
    LET rows == r.tables[ResTable(r.tables, Len(r.tables))].rows
    IN  [n \in DOMAIN rows |-> Normalize(rows[n])]

\* the size test is left out
CountOkAlways(n) == TRUE

\* tickers.shape[0] != 505 raises
CountOk(n) == n = ExpectedCount

\* the identifier file: absent, or the column Ticker
NoTickers == [exists |-> FALSE, rows |-> << >>]

OldTickers == [exists |-> TRUE, rows |-> << <<"B">> >>]

\* The identifiers of the download loop are numbers in lexicographic
\* order: a token of the universe is numbered by its place among the
\* distinct tokens of the universe.
IdSeq(rows) ==
    [n \in DOMAIN rows |->
        1 + Cardinality({ u \in Range(rows) : LexLess(u, rows[n]) })]

TickersIdle ==
    /\ resp = NoDoc
    /\ res_arr = << >>
    /\ error = "none"
    /\ tickers_file0 = tickers_file

\* ------------------------------------------------- merge_dfs: values
\* STOCK_FOLDER = os.path.join('data', 'stocks')
STOCK_FOLDER == "data/stocks"

\* the folders a caller can pass as stock_folder
Folders == {STOCK_FOLDER, "data/elsewhere"}

MergeIds == 1..MaxIds
Dates == 1..MaxDate

\* the stem of the file of an identifier: {ticker}.csv
TickerName == <<"AAA", "BBB", "CCC", "DDD", "EEE">>

IdOf(name) == CHOOSE t \in DOMAIN TickerName : TickerName[t] = name

\* the columns of a per-identifier file, after the date column
RawColumns == <<"High", "Low", "Open", "Close", "Volume", "Adj Close">>

ColNo(c) == CHOOSE n \in DOMAIN RawColumns : RawColumns[n] = c

\* The number stored in folder f, file of identifier t, row d, column c:
\* every cell of every file holds a different number.
Quote(f, t, d, c) ==
    (((IF f = STOCK_FOLDER THEN 1 ELSE 2) * 10 + t) * 10 + d) * 10 + ColNo(c)

NaN == -1

\* a DataFrame: the set of its index values, its column names in order and
\* its cells; NoFrame stands for None and for a file that does not exist
NoFrame == [kind |-> "None", index |-> {}, columns |-> << >>, val |-> << >>]

Frame(index, columns, val) ==
    [kind |-> "frame", index |-> index, columns |-> columns, val |-> val]

\* os.listdir(...) filtered by f.endswith('.csv')
CsvFiles(f) ==
    { [stem |-> TickerName[t], ext |-> "csv"] : t \in {u \in MergeIds : folders[f][u] # {}} }

\* every order in which os.listdir can return a set of names
Orders(S) ==
    { q \in [1..Cardinality(S) -> S] : \A a, b \in DOMAIN q : a # b => q[a] # q[b] }

\* os.path.isfile(os.path.join(folder, fname))
IsFile(f, fname) ==
    /\ fname.ext = "csv"
    /\ \E t \in MergeIds : TickerName[t] = fname.stem /\ folders[f][t] # {}

\* what can be wrong with a per-identifier file: nothing, not a csv table
\* at all, or a table without one of the columns
Defects == {"none", "garbled", "no Adj Close", "no Volume"}

\* the columns the file of identifier t lacks
Missing(t) ==
    IF defect[t] = "no Adj Close" THEN {"Adj Close"}
    ELSE IF defect[t] = "no Volume" THEN {"Volume"}
    ELSE {}

\* pd.read_csv raises on the file of identifier t
Unparseable(t) == defect[t] = "garbled"

\* pd.read_csv(cur_fpath, index_col=0)
ReadCsv(f, fname) ==
    LET t == IdOf(fname.stem)
        cols == SelectSeq(RawColumns, LAMBDA c : c \notin Missing(t))
    IN  Frame(folders[f][t], cols,
              [k \in folders[f][t] \X Range(cols) |->
                   Quote(f, t, k[1], k[2])])

\* the labels cur_df.drop is given
Dropped == {"Open", "Close", "High", "Low", "Volume"}

\* df.drop(names, axis=1) raises KeyError: a label is not a column
DropRaises(frame, names) == \E c \in names : c \notin Range(frame.columns)

\* df.drop(names, axis=1)
Drop(frame, names) ==
    LET keep == SelectSeq(frame.columns, LAMBDA c : c \notin names)
    IN  Frame(frame.index, keep,
              [k \in frame.index \X Range(keep) |-> frame.val[k]])

\* df.rename(columns={old: new})
Rename(frame, old, new) ==
    LET to(c) == IF c = old THEN new ELSE c
        from(c) == IF c = new THEN old ELSE c
        cols == [n \in DOMAIN frame.columns |-> to(frame.columns[n])]
    IN  Frame(frame.index, cols,
              [k \in frame.index \X Range(cols) |->
                   frame.val[<<k[1], from(k[2])>>]])

\* a join that keeps only the dates both frames have
JoinInner(left, right) ==
    LET index == left.index \cap right.index
        cols == left.columns \o right.columns
    IN  Frame(index, cols,
              [k \in index \X Range(cols) |->
                   IF k[2] \in Range(left.columns)
                   THEN left.val[k] ELSE right.val[k]])

\* a join that keeps the dates of the left frame only: join's default
JoinLeft(left, right) ==
    LET cols == left.columns \o right.columns
        cell(side, k) == IF k[1] \in side.index THEN side.val[k] ELSE NaN
    IN  Frame(left.index, cols,
              [k \in left.index \X Range(cols) |->
                   IF k[2] \in Range(left.columns)
                   THEN cell(left, k) ELSE cell(right, k)])

\* left.join(right, how='outer')
JoinOuter(left, right) ==
    LET index == left.index \cup right.index
        cols == left.columns \o right.columns
        cell(side, k) == IF k[1] \in side.index THEN side.val[k] ELSE NaN
    IN  Frame(index, cols,
              [k \in index \X Range(cols) |->
                   IF k[2] \in Range(left.columns)
                   THEN cell(left, k) ELSE cell(right, k)])

\* the loop body up to the join: read, drop, rename
CurDf(f, fname) ==
    Rename(Drop(ReadCsv(f, fname), Dropped), "Adj Close", fname.stem)

\* the file cannot be turned into cur_df: read_csv or drop raises
LoadRaises(f, fname) ==
    \/ Unparseable(IdOf(fname.stem))
    \/ DropRaises(ReadCsv(f, fname), Dropped)

\* if master_df is None: master_df = cur_df, else the outer join
Accumulate(master, cur) ==
    IF master = NoFrame THEN cur ELSE JoinOuter(master, cur)

\* the for loop over the first n names of the sequence q
RECURSIVE MergeFold(_, _, _)
MergeFold(f, q, n) ==
    IF n = 0 THEN NoFrame
    ELSE Accumulate(MergeFold(f, q, n - 1), CurDf(f, q[n]))

MergeIdle ==
    /\ mpc = "idle"
    /\ fnames = << >>
    /\ fpos = 1
    /\ master_df = NoFrame
    /\ result = NoFrame
    /\ listed = 0
    /\ reads = 0
    /\ merged0 = merged
    /\ save_dir0 = save_dir

\* the artifacts a folder can hold: per identifier no file ({}), or a table
\* over the dates from a first to a last one, as DataReader(ticker, 'yahoo',
\* start_dt, end_dt) returns a series
Artifacts == [MergeIds -> { a..b : a \in Dates, b \in Dates }]

\* the files of a folder that is only listed are never read: each is absent
\* or holds every date
ListedOnly == [MergeIds -> {{}, Dates}]

\* a merged file left by an earlier call
OldMerged == Frame({}, << >>, << >>)

\* the files of a folder passed in place of STOCK_FOLDER: each is absent,
\* holds the first date or holds every date
PassedOnly == [MergeIds -> {{}, {1}, Dates}]

\* the folders and arguments of a call of merge_dfs
MergeInputs ==
    /\ stock_folder \in Folders
    /\ \E src \in IF stock_folder = STOCK_FOLDER THEN Artifacts ELSE PassedOnly,
          lst \in ListedOnly :
          folders = [f \in Folders |->
                        IF f = stock_folder THEN src
                        ELSE IF f = STOCK_FOLDER THEN lst
                        ELSE [t \in MergeIds |-> {}]]
    /\ reload_data \in BOOLEAN
    /\ merged \in {NoFrame, OldMerged}
    /\ save_dir \in {b \in BOOLEAN : merged # NoFrame => b}

\* every artifact is a well-formed table
InitMerge ==
    /\ tickers = << >>
    /\ FetchIdle
    /\ MergeInputs
    /\ defect = [t \in MergeIds |-> "none"]
    /\ MergeIdle
    /\ tickers_file = NoTickers
    /\ TickersIdle

\* one artifact of stock_folder is not a well-formed table
InitMergeCorrupt ==
    /\ tickers = << >>
    /\ FetchIdle
    /\ MergeInputs
    /\ \E t \in MergeIds, k \in Defects \ {"none"} :
          /\ folders[stock_folder][t] # {}
          /\ defect = [u \in MergeIds |-> IF u = t THEN k ELSE "none"]
    /\ MergeIdle
    /\ tickers_file = NoTickers
    /\ TickersIdle

\* no call of merge_dfs
NoMerge ==
    /\ folders = [f \in Folders |-> [t \in MergeIds |-> {}]]
    /\ stock_folder = STOCK_FOLDER
    /\ reload_data = FALSE
    /\ merged = NoFrame
    /\ save_dir = FALSE
    /\ defect = [t \in MergeIds |-> "none"]
    /\ MergeIdle

Init ==
    /\ tickers \in Universes
    /\ FetchIdle
    /\ NoMerge
    /\ tickers_file = NoTickers
    /\ TickersIdle

\* get_stock_data(reload_tickers=True): no universe is loaded yet, the
\* identifier file is absent or left by an earlier call
InitTickers ==
    /\ tickers = << >>
    /\ FetchIdle
    /\ NoMerge
    /\ tickers_file \in {NoTickers, OldTickers}
    /\ TickersIdle

\* --------------------------------------------------------- get_stock_data
\* os.path.exists tests a path that never names the artifact
ArtifactExistsNever(t) == FALSE

\* os.path.exists(dest_fpath)
ArtifactExists(t) == stocks[t].state # "absent"

\* the loop test lets a counter of zero in
LoopTestInclusive == retries >= 0

\* while retries > 0
LoopTest == retries > 0

\* the counter is left as it is after df.to_csv
RetriesAfterSaveKept == retries

\* the value assigned to retries after df.to_csv
RetriesAfterSave == 0

\* A call of get_stock_data: the identifier file is read and the
\* destination folder is made; the locals are fresh.
StartRun ==
    /\ pc \in {"idle", "done", "raised", "interrupted"}
    /\ run < MaxRuns
    /\ \E k \in 0..MaxRetries : max_retries' = k
    /\ run' = run + 1
    /\ pc' = "for"
    /\ idx' = 1
    /\ retries' = 0
    /\ df' = Unbound
    /\ failsBefore' = 0
    /\ calls' = Zero
    /\ sleeps' = Zero
    /\ writes' = Zero
    /\ plan' = [t \in Identifier |-> NoPlan]
    /\ atReach' = [t \in Identifier |-> NoFile]
    /\ reached' = {}
    /\ ended' = {}
    /\ prevPlan' = plan
    /\ prevStatus' = pc
    /\ prevMaxRetries' = max_retries
    /\ atRunStart' = stocks
    /\ UNCHANGED << tickers, stocks, totalWrites >>
    /\ UNCHANGED mvars
    /\ UNCHANGED tvars

\* for ... in tickers.itertuples(): the artifact exists, nothing is done
SkipExisting ==
    /\ pc = "for"
    /\ idx <= Len(tickers)
    /\ ArtifactExists(ticker)
    /\ atReach' = [atReach EXCEPT ![ticker] = stocks[ticker]]
    /\ reached' = reached \cup {ticker}
    /\ idx' = idx + 1
    /\ UNCHANGED << tickers, max_retries, run, pc, retries, df, stocks,
                    failsBefore, calls, sleeps, writes, plan, ended >>
    /\ UNCHANGED histAll
    /\ UNCHANGED mvars
    /\ UNCHANGED tvars

\* for ... in tickers.itertuples(): no artifact, retries = max_retries
EnterFetch ==
    /\ pc = "for"
    /\ idx <= Len(tickers)
    /\ ~ArtifactExists(ticker)
    /\ atReach' = [atReach EXCEPT ![ticker] = stocks[ticker]]
    /\ reached' = reached \cup {ticker}
    /\ retries' = max_retries
    /\ \E j \in 0..max_retries :
          /\ failsBefore' = j
          /\ plan' = [plan EXCEPT ![ticker] = j]
    /\ pc' = "while"
    /\ UNCHANGED << tickers, max_retries, run, idx, df, stocks,
                    calls, sleeps, writes, ended >>
    /\ UNCHANGED histAll
    /\ UNCHANGED mvars
    /\ UNCHANGED tvars

\* the for loop is exhausted: the function returns
Finish ==
    /\ pc = "for"
    /\ idx > Len(tickers)
    /\ pc' = "done"
    /\ UNCHANGED << tickers, max_retries, run, idx, retries, df, stocks,
                    failsBefore >>
    /\ UNCHANGED histRun
    /\ UNCHANGED histAll
    /\ UNCHANGED mvars
    /\ UNCHANGED tvars

\* while retries > 0: retries -= 1
Attempt ==
    /\ pc = "while"
    /\ LoopTest
    /\ retries' = retries - 1
    /\ pc' = "call"
    /\ UNCHANGED << tickers, max_retries, run, idx, df, stocks, failsBefore >>
    /\ UNCHANGED histRun
    /\ UNCHANGED histAll
    /\ UNCHANGED mvars
    /\ UNCHANGED tvars

\* the while loop is left: pbar.close(), next identifier
LoopExit ==
    /\ pc = "while"
    /\ ~LoopTest
    /\ ended' = ended \cup {ticker}
    /\ idx' = idx + 1
    /\ pc' = "for"
    /\ UNCHANGED << tickers, max_retries, run, retries, df, stocks,
                    failsBefore, calls, sleeps, writes, plan, atReach,
                    reached >>
    /\ UNCHANGED histAll
    /\ UNCHANGED mvars
    /\ UNCHANGED tvars

\* df = web.DataReader(...) returns a table
CallOk ==
    /\ pc = "call"
    /\ calls[ticker] + 1 > failsBefore
    /\ calls' = [calls EXCEPT ![ticker] = @ + 1]
    /\ df' = [ticker |-> ticker, run |-> run]
    /\ pc' = "save"
    /\ UNCHANGED << tickers, max_retries, run, idx, retries, stocks,
                    failsBefore, sleeps, writes, plan, atReach, reached,
                    ended >>
    /\ UNCHANGED histAll
    /\ UNCHANGED mvars
    /\ UNCHANGED tvars

\* web.DataReader(...) raises: df keeps whatever it held
CallFail ==
    /\ pc = "call"
    /\ calls[ticker] + 1 <= failsBefore
    /\ calls' = [calls EXCEPT ![ticker] = @ + 1]
    /\ pc' = "sleep"
    /\ UNCHANGED << tickers, max_retries, run, idx, retries, df, stocks,
                    failsBefore, sleeps, writes, plan, atReach, reached,
                    ended >>
    /\ UNCHANGED histAll
    /\ UNCHANGED mvars
    /\ UNCHANGED tvars

\* except Exception: time.sleep(timeout), then the code after the try
Sleep ==
    /\ pc = "sleep"
    /\ sleeps' = [sleeps EXCEPT ![ticker] = @ + 1]
    /\ pc' = "save"
    /\ UNCHANGED << tickers, max_retries, run, idx, retries, df, stocks,
                    failsBefore, calls, writes, plan, atReach, reached,
                    ended >>
    /\ UNCHANGED histAll
    /\ UNCHANGED mvars
    /\ UNCHANGED tvars

\* df.to_csv(dest_fpath) with df never assigned: UnboundLocalError leaves
\* get_stock_data
SaveUnbound ==
    /\ pc = "save"
    /\ df = Unbound
    /\ pc' = "raised"
    /\ UNCHANGED << tickers, max_retries, run, idx, retries, df, stocks,
                    failsBefore >>
    /\ UNCHANGED histRun
    /\ UNCHANGED histAll
    /\ UNCHANGED mvars
    /\ UNCHANGED tvars

\* df.to_csv(dest_fpath): the file is opened (created or truncated) ...
SaveOpen ==
    /\ pc = "save"
    /\ df # Unbound
    /\ stocks' = [stocks EXCEPT ![ticker] = [table |-> df, state |-> "partial"]]
    /\ writes' = [writes EXCEPT ![ticker] = @ + 1]
    /\ totalWrites' = [totalWrites EXCEPT ![ticker] = @ + 1]
    /\ pc' = "saving"
    /\ UNCHANGED << tickers, max_retries, run, idx, retries, df, failsBefore,
                    calls, sleeps, plan, atReach, reached, ended >>
    /\ UNCHANGED << prevPlan, prevStatus, prevMaxRetries, atRunStart >>
    /\ UNCHANGED mvars
    /\ UNCHANGED tvars

\* ... and written to its end; then retries = 0
SaveClose ==
    /\ pc = "saving"
    /\ stocks' = [stocks EXCEPT ![ticker].state = "complete"]
    /\ retries' = RetriesAfterSave
    /\ pc' = "while"
    /\ UNCHANGED << tickers, max_retries, run, idx, df, failsBefore >>
    /\ UNCHANGED histRun
    /\ UNCHANGED histAll
    /\ UNCHANGED mvars
    /\ UNCHANGED tvars

\* The process is stopped from outside (KeyboardInterrupt, kill) anywhere
\* in the loop; nothing is cleaned up, the files stay as they are.
Interrupt ==
    /\ pc \in {"for", "while", "call", "sleep", "save", "saving"}
    /\ pc' = "interrupted"
    /\ UNCHANGED << tickers, max_retries, run, idx, retries, df, stocks,
                    failsBefore >>
    /\ UNCHANGED histRun
    /\ UNCHANGED histAll
    /\ UNCHANGED mvars
    /\ UNCHANGED tvars

Next ==
    \/ StartRun
    \/ SkipExisting
    \/ EnterFetch
    \/ Finish
    \/ Attempt
    \/ LoopExit
    \/ CallOk
    \/ CallFail
    \/ Sleep
    \/ SaveUnbound
    \/ SaveOpen
    \/ SaveClose
    \/ Interrupt

Spec == Init /\ [][Next]_vars

\* One statement of a running call.  The code is sequential and none of its
\* statements blocks for ever: web.DataReader returns or raises,
\* time.sleep(timeout) returns, to_csv returns or raises.
Step ==
    \/ SkipExisting
    \/ EnterFetch
    \/ Finish
    \/ Attempt
    \/ LoopExit
    \/ CallOk
    \/ CallFail
    \/ Sleep
    \/ SaveUnbound
    \/ SaveOpen
    \/ SaveClose

\* calls of get_stock_data that nothing stops from outside
NextLive ==
    \/ StartRun
    \/ Step

\* a call that has a statement to execute executes it
SpecLive == Init /\ [][NextLive]_vars /\ WF_vars(Step)

\* ------------------------------------------------------------- merge_dfs
\* the test is written without its not
TargetPresentNoNot == merged # NoFrame /\ reload_data

\* os.path.isfile(.../snp500_merged.csv) and not reload_data
TargetPresent == merged # NoFrame /\ ~reload_data

\* the target file is present and reload_data is false: return
MergeSkip ==
    /\ mpc = "idle"
    /\ TargetPresent
    /\ mpc' = "returned"
    /\ UNCHANGED << merged, fnames, fpos, master_df, result, save_dir,
                    listed, reads >>
    /\ UNCHANGED margs
    /\ UNCHANGED fvars
    /\ UNCHANGED tvars

\* fnames = [f for f in os.listdir(STOCK_FOLDER) if f.endswith('.csv')]
MergeList ==
    /\ mpc = "idle"
    /\ ~TargetPresent
    /\ fnames' \in Orders(CsvFiles(STOCK_FOLDER))
    /\ listed' = listed + 1
    /\ fpos' = 1
    /\ master_df' = NoFrame
    /\ mpc' = "loop"
    /\ UNCHANGED << merged, result, save_dir, reads >>
    /\ UNCHANGED margs
    /\ UNCHANGED fvars
    /\ UNCHANGED tvars

\* pd.read_csv(os.path.join(stock_folder, cur_fname)): no such file
LoadMissing ==
    /\ mpc = "loop"
    /\ fpos <= Len(fnames)
    /\ ~IsFile(stock_folder, fnames[fpos])
    /\ reads' = reads + 1
    /\ mpc' = "raised"
    /\ UNCHANGED << merged, fnames, fpos, master_df, result, save_dir,
                    listed >>
    /\ UNCHANGED margs
    /\ UNCHANGED fvars
    /\ UNCHANGED tvars

\* pd.read_csv cannot parse the file, or cur_df.drop does not find a label
LoadCorrupt ==
    /\ mpc = "loop"
    /\ fpos <= Len(fnames)
    /\ IsFile(stock_folder, fnames[fpos])
    /\ LoadRaises(stock_folder, fnames[fpos])
    /\ reads' = reads + 1
    /\ mpc' = "raised"
    /\ UNCHANGED << merged, fnames, fpos, master_df, result, save_dir,
                    listed >>
    /\ UNCHANGED margs
    /\ UNCHANGED fvars
    /\ UNCHANGED tvars

\* one iteration of the for loop: read, drop, rename, join
LoadNext ==
    /\ mpc = "loop"
    /\ fpos <= Len(fnames)
    /\ IsFile(stock_folder, fnames[fpos])
    /\ ~LoadRaises(stock_folder, fnames[fpos])
    /\ master_df' = Accumulate(master_df, CurDf(stock_folder, fnames[fpos]))
    /\ reads' = reads + 1
    /\ fpos' = fpos + 1
    /\ UNCHANGED << merged, mpc, fnames, result, save_dir, listed >>
    /\ UNCHANGED margs
    /\ UNCHANGED fvars
    /\ UNCHANGED tvars

\* os.makedirs(save_folder), then master_df.to_csv(save_path) with master_df
\* None: AttributeError
SaveNone ==
    /\ mpc = "loop"
    /\ fpos > Len(fnames)
    /\ master_df = NoFrame
    /\ save_dir' = TRUE
    /\ mpc' = "raised"
    /\ UNCHANGED << merged, fnames, fpos, master_df, result, listed, reads >>
    /\ UNCHANGED margs
    /\ UNCHANGED fvars
    /\ UNCHANGED tvars

\* os.makedirs(save_folder); master_df.to_csv(save_path); return master_df
MergeSave ==
    /\ mpc = "loop"
    /\ fpos > Len(fnames)
    /\ master_df # NoFrame
    /\ save_dir' = TRUE
    /\ merged' = master_df
    /\ result' = master_df
    /\ mpc' = "done"
    /\ UNCHANGED << fnames, fpos, master_df, listed, reads >>
    /\ UNCHANGED margs
    /\ UNCHANGED fvars
    /\ UNCHANGED tvars

NextMerge ==
    \/ MergeSkip
    \/ MergeList
    \/ LoadMissing
    \/ LoadNext
    \/ SaveNone
    \/ MergeSave

SpecMerge == InitMerge /\ [][NextMerge]_vars

NextMergeCorrupt ==
    \/ MergeSkip
    \/ MergeList
    \/ LoadMissing
    \/ LoadCorrupt
    \/ LoadNext
    \/ SaveNone
    \/ MergeSave

SpecMergeCorrupt == InitMergeCorrupt /\ [][NextMergeCorrupt]_vars


\* ------------------------- get_stock_data(reload_tickers=True), save_tickers
\* A call of get_stock_data with reload_tickers: save_tickers is entered.
StartReload ==
    /\ pc = "idle"
    /\ run = 0
    /\ \E k \in 0..MaxRetries : max_retries' = k
    /\ run' = run + 1
    /\ pc' = "request"
    /\ UNCHANGED << tickers, idx, retries, df, stocks, failsBefore >>
    /\ UNCHANGED histRun
    /\ UNCHANGED histAll
    /\ UNCHANGED mvars
    /\ UNCHANGED tvars

\* resp = requests.get(URL)
GetPage ==
    /\ pc = "request"
    /\ resp' \in Docs
    /\ pc' = "status"
    /\ UNCHANGED << res_arr, error, tickers_file, tickers_file0 >>
    /\ UNCHANGED fvars_but_pc
    /\ UNCHANGED mvars

\* resp.status_code != 200: raise Exception
BadStatus ==
    /\ pc = "status"
    /\ ~StatusOk(resp)
    /\ error' = "status"
    /\ pc' = "raised"
    /\ UNCHANGED << resp, res_arr, tickers_file, tickers_file0 >>
    /\ UNCHANGED fvars_but_pc
    /\ UNCHANGED mvars

\* no table has the header 'Ticker symbol': res_table is not assigned and
\* res_table.findAll raises UnboundLocalError
NoTable ==
    /\ pc = "status"
    /\ StatusOk(resp)
    /\ ResTable(resp.tables, Len(resp.tables)) = 0
    /\ error' = "table"
    /\ pc' = "raised"
    /\ UNCHANGED << resp, res_arr, tickers_file, tickers_file0 >>
    /\ UNCHANGED fvars_but_pc
    /\ UNCHANGED mvars

\* the rows of res_table are extracted: get_snp_tickers returns res_arr
Resolve ==
    /\ pc = "status"
    /\ StatusOk(resp)
    /\ ResTable(resp.tables, Len(resp.tables)) # 0
    /\ res_arr' = ResArr(resp)
    /\ pc' = "resolved"
    /\ UNCHANGED << resp, error, tickers_file, tickers_file0 >>
    /\ UNCHANGED fvars_but_pc
    /\ UNCHANGED mvars

\* tickers.shape[0] != 505: raise Exception('Bad ticker count ...')
BadCount ==
    /\ pc = "resolved"
    /\ ~CountOk(Len(res_arr))
    /\ error' = "count"
    /\ pc' = "raised"
    /\ UNCHANGED << resp, res_arr, tickers_file, tickers_file0 >>
    /\ UNCHANGED fvars_but_pc
    /\ UNCHANGED mvars

\* sort_values, makedirs, tickers.to_csv(fpath, index=False), return tickers
SaveTickers ==
    /\ pc = "resolved"
    /\ CountOk(Len(res_arr))
    /\ tickers_file' = [exists |-> TRUE, rows |-> SortValues(res_arr)]
    /\ pc' = "saved"
    /\ UNCHANGED << resp, res_arr, error, tickers_file0 >>
    /\ UNCHANGED fvars_but_pc
    /\ UNCHANGED mvars

\* tickers = save_tickers(); the destination folder is made and the for loop
\* over tickers.itertuples() begins; the locals of save_tickers are gone
BeginLoop ==
    /\ pc = "saved"
    /\ tickers' = IdSeq(tickers_file.rows)
    /\ resp' = NoDoc
    /\ res_arr' = << >>
    /\ idx' = 1
    /\ pc' = "for"
    /\ UNCHANGED << error, tickers_file, tickers_file0 >>
    /\ UNCHANGED << max_retries, run, retries, df, stocks, failsBefore >>
    /\ UNCHANGED histRun
    /\ UNCHANGED histAll
    /\ UNCHANGED mvars

NextTickers ==
    \/ StartReload
    \/ GetPage
    \/ BadStatus
    \/ NoTable
    \/ Resolve
    \/ BadCount
    \/ SaveTickers
    \/ BeginLoop
    \/ SkipExisting
    \/ EnterFetch
    \/ Finish
    \/ Attempt
    \/ LoopExit
    \/ CallOk
    \/ CallFail
    \/ Sleep
    \/ SaveUnbound
    \/ SaveOpen
    \/ SaveClose

SpecTickers == InitTickers /\ [][NextTickers]_vars

\* ------------------------------------------------ get_stock_data: claims
RunOver == pc \in {"done", "raised"}

\* the fetch of t was started in this run
Fetched(t) == plan[t] # NoPlan

\* every remote attempt made for t failed
AllFailed(t) == Fetched(t) /\ calls[t] > 0 /\ calls[t] <= plan[t]

\* the fetch of t is over: its while loop was left, or an exception left
\* get_stock_data in the middle of it
FetchOver(t) ==
    \/ t \in ended
    \/ pc = "raised" /\ idx <= Len(tickers) /\ tickers[idx] = t

Present(f) == f.state # "absent"

\* the file holds, completely written, the table of a call made for t
GoodArtifact(f, t) == f.state = "complete" /\ f.table.ticker = t

\* C1: an identifier whose every attempt fails does not abort the run: no
\* exception leaves get_stock_data, and when the run is over every later
\* identifier of the universe has been reached.
C1_FailureDoesNotAbort ==
    \A k \in DOMAIN tickers :
        AllFailed(tickers[k]) =>
            /\ pc # "raised"
            /\ RunOver => \A m \in DOMAIN tickers :
                              m > k => tickers[m] \in reached

\* C2: the artifact of X holds the table of a successful call made for X;
\* an artifact written in this run was written once, after a successful
\* attempt for X of this run.
C2_PersistedIsOwnSuccess ==
    \A t \in Identifier :
        /\ Present(stocks[t]) => stocks[t].table.ticker = t
        /\ writes[t] > 0 =>
              /\ writes[t] = 1
              /\ calls[t] > plan[t]
              /\ stocks[t].table = [ticker |-> t, run |-> run]

\* C3: a provider that fails j < max_retries times and then answers gets
\* j+1 calls and j sleeps, and its answer is what is persisted.
C3_RetryUntilSuccess ==
    \A t \in Identifier :
        (FetchOver(t) /\ Fetched(t) /\ plan[t] < max_retries) =>
            /\ calls[t] = plan[t] + 1
            /\ sleeps[t] = plan[t]
            /\ stocks[t] = [table |-> [ticker |-> t, run |-> run],
                            state |-> "complete"]

\* C4: with max_retries = k >= 1 a fetch makes between 1 and k calls, one
\* call when the first answers, and ends without an answer only after k
\* failed calls.
C4_CallBudget ==
    \A t \in Identifier :
        (FetchOver(t) /\ Fetched(t) /\ max_retries >= 1) =>
            /\ calls[t] >= 1
            /\ calls[t] <= max_retries
            /\ plan[t] = 0 => calls[t] = 1
            /\ calls[t] <= plan[t] => calls[t] = max_retries

\* C5: an identifier whose artifact exists when the for loop reaches it
\* gets no remote call and no write; its file stays as it was.
C5_ExistingIsUntouched ==
    \A t \in reached :
        Present(atReach[t]) =>
            /\ calls[t] = 0
            /\ writes[t] = 0
            /\ stocks[t] = atReach[t]

\* an existing artifact was reached and the run went on to its end
C5_Witness ==
    /\ pc = "done"
    /\ \E t \in reached : Present(atReach[t]) /\ stocks[t] = atReach[t]
    /\ \E t \in reached : ~Present(atReach[t]) /\ calls[t] > 0

\* the provider behaves in this run as in the previous one
SameProvider ==
    \A t \in Identifier :
        (plan[t] # NoPlan /\ prevPlan[t] # NoPlan) => plan[t] = prevPlan[t]

\* C6: the second of two runs with the same arguments and the same
\* provider makes no remote call and leaves the artifacts as they were.
C6_SecondRunIsIdle ==
    (/\ run = 2
     /\ prevStatus \in {"done", "raised"}
     /\ prevMaxRetries = max_retries
     /\ SameProvider) =>
        /\ \A t \in Identifier : calls[t] = 0
        /\ stocks = atRunStart

\* C7: a file that exists is never opened for writing again and keeps its
\* table, in this run and in later ones; every artifact is written at most
\* once.
C7_WrittenAtMostOnce ==
    [][\A t \in Identifier :
          /\ totalWrites'[t] <= 1
          /\ Present(stocks[t]) =>
                /\ totalWrites'[t] = totalWrites[t]
                /\ Present(stocks'[t])
                /\ stocks'[t].table = stocks[t].table]_vars

\* an artifact written in the first run was reached again in the second
\* run, which also made a remote call
C7_Witness ==
    /\ run = 2
    /\ \E t \in reached : Present(atRunStart[t]) /\ totalWrites[t] = 1
    /\ \E t \in Identifier : calls[t] > 0 /\ writes[t] = 1

\* C8: after an interrupted run, every artifact the next run skips is a
\* complete artifact holding a fetch for its identifier.
C8_ResumeSeesCompleteArtifacts ==
    prevStatus = "interrupted" =>
        \A t \in reached :
            Present(atReach[t]) => GoodArtifact(atReach[t], t)

\* ------------------------------------------------------ merge_dfs: claims
\* the identifiers whose files were listed
Listed == { IdOf(fnames[n].stem) : n \in DOMAIN fnames }

\* the identifiers that have an artifact in folder f
ArtifactsIn(f) == { t \in MergeIds : folders[f][t] # {} }

\* C9: the merged table has as index the union of the dates of the loaded
\* artifacts, and the cell (d, X) is X's adjusted close at d where X's
\* artifact has a row for d and undefined elsewhere.
C9_OuterJoin ==
    mpc = "done" =>
        LET src == folders[stock_folder]
            allDates == UNION { src[t] : t \in Listed }
        IN  /\ result.index = allDates
            /\ Range(result.columns) = { TickerName[t] : t \in Listed }
            /\ \A d \in allDates : \A t \in Listed :
                  result.val[<<d, TickerName[t]>>] =
                      IF d \in src[t]
                      THEN Quote(stock_folder, t, d, "Adj Close")
                      ELSE NaN
            /\ merged = result

\* the scenario of the specification: AAA on dates 1-2, BBB on dates 2-3
C9_Witness ==
    /\ mpc = "done"
    /\ Listed = {1, 2}
    /\ folders[stock_folder][1] = {1, 2}
    /\ folders[stock_folder][2] = {2, 3}
    /\ result.index = {1, 2, 3}
    /\ result.val[<<3, "AAA">>] = NaN
    /\ result.val[<<1, "BBB">>] = NaN
    /\ result.val[<<2, "AAA">>] = Quote(stock_folder, 1, 2, "Adj Close")
    /\ result.val[<<2, "BBB">>] = Quote(stock_folder, 2, 2, "Adj Close")

\* C10: whatever folder is passed as stock_folder, the files listed and
\* merged are exactly the artifacts of that folder, one column each.
C10_MergesGivenFolder ==
    /\ mpc = "loop" => Listed = ArtifactsIn(stock_folder)
    /\ mpc # "raised"
    /\ mpc = "done" =>
          /\ Len(result.columns) = Cardinality(ArtifactsIn(stock_folder))
          /\ Range(result.columns) =
                 { TickerName[t] : t \in ArtifactsIn(stock_folder) }

\* the merge was attempted and is over
MergeOver == mpc \in {"done", "raised"}

\* C11: with the merged file present and reload_data false, merge_dfs lists
\* no folder, reads no artifact and leaves the merged file as it was.
C11_SkipReadsNothing ==
    (merged0 # NoFrame /\ ~reload_data) =>
        /\ mpc \in {"idle", "returned"}
        /\ listed = 0
        /\ reads = 0
        /\ merged = merged0

\* merge_dfs returned early although there were artifacts to merge
C11_Witness ==
    /\ mpc = "returned"
    /\ merged0 # NoFrame /\ ~reload_data
    /\ ArtifactsIn(STOCK_FOLDER) # {}
    /\ stock_folder = STOCK_FOLDER

\* the two tables have the same dates, the same columns and the same cells
SameCells(a, b) ==
    /\ a.index = b.index
    /\ Range(a.columns) = Range(b.columns)
    /\ \A d \in a.index : \A c \in Range(a.columns) :
          a.val[<<d, c>>] = b.val[<<d, c>>]

\* C12: whatever the order in which the artifacts are processed, the merged
\* table has the same dates, the same columns and the same cells.
C12_OrderIndependent ==
    mpc = "done" =>
        \A q \in Orders(Range(fnames)) :
            SameCells(result, MergeFold(stock_folder, q, Len(q)))

\* two artifacts with different dates were merged, BBB before AAA
C12_Witness ==
    /\ mpc = "done"
    /\ Len(fnames) = 2
    /\ fnames[1].stem = "BBB" /\ fnames[2].stem = "AAA"
    /\ result.columns = <<"BBB", "AAA">>
    /\ folders[stock_folder][1] \ folders[stock_folder][2] # {}
    /\ folders[stock_folder][2] \ folders[stock_folder][1] # {}

\* C15: an artifact that cannot be loaded (unparseable, or an expected
\* column missing) makes merge_dfs raise; the merged file stays as it was.
C15_CorruptArtifactAborts ==
    (/\ MergeOver
     /\ \E t \in Listed :
           folders[stock_folder][t] # {} /\ defect[t] # "none") =>
        /\ mpc = "raised"
        /\ merged = merged0

\* C16: merge_dfs on a folder without artifacts raises, writes no merged
\* file and changes nothing on disk.
C16_EmptySourceFails ==
    (MergeOver /\ ArtifactsIn(stock_folder) = {}) =>
        /\ mpc = "raised"
        /\ merged = merged0
        /\ save_dir = save_dir0

\* C19: a completed get_stock_data reports the counts of already-present,
\* newly-fetched and failed identifiers, and the three counts sum to the
\* size of the universe.
C19_SummaryCounts ==
    pc = "done" =>
        /\ Len(ReportedCounts) = 3
        /\ ReportedCounts[1] + ReportedCounts[2] + ReportedCounts[3] = Len(tickers)

\* C20: identifiers are processed one at a time in the order of the
\* universe: within a run the position only moves forward by one, past an
\* identifier that was reached, and a remote call, a sleep or a write is
\* only ever made for the identifier at the current position, which stays
\* current over that step.
C20_OneAtATime ==
    [][run' = run =>
          /\ idx' \in {idx, idx + 1}
          /\ idx' = idx + 1 => tickers[idx] \in reached'
          /\ reached' \subseteq reached \cup {tickers[k] : k \in DOMAIN tickers \cap {idx}}
          /\ \A t \in Identifier :
                (\/ calls'[t] # calls[t]
                 \/ sleeps'[t] # sleeps[t]
                 \/ writes'[t] # writes[t]
                 \/ stocks'[t] # stocks[t]) =>
                    /\ idx \in DOMAIN tickers
                    /\ tickers[idx] = t
                    /\ idx' = idx
                    /\ \A k \in DOMAIN tickers : k < idx => tickers[k] \in reached]_vars

\* a completed run over at least two different identifiers, each called, one
\* of them after a sleep, one of them written
C20_Witness ==
    /\ pc = "done"
    /\ \A k \in DOMAIN tickers : calls[tickers[k]] > 0
    /\ \E i \in DOMAIN tickers : \E j \in DOMAIN tickers :
          /\ i < j
          /\ tickers[i] # tickers[j]
          /\ sleeps[tickers[i]] > 0
          /\ writes[tickers[i]] = 1
          /\ writes[tickers[j]] = 1

\* the iterations of the retry loop made for t in this run: each iteration
\* makes one remote call right after it is entered
Iterations(t) ==
    calls[t] + (IF pc = "call" /\ idx \in DOMAIN tickers /\ tickers[idx] = t
                THEN 1 ELSE 0)

Running == pc \in {"for", "while", "call", "sleep", "save", "saving"}

\* C21: every call of get_stock_data stops, completing or raising; the retry
\* loop of an identifier makes at most max_retries iterations; the counter
\* is positive when the body is entered, is smaller once the body is
\* entered and is smaller still or zero when the iteration is over; with
\* max_retries = 0 the body never runs, no remote call is made and nothing
\* is written.
C21_RunStops ==
    /\ Running ~> RunOver
    /\ [](\A t \in Identifier : Iterations(t) <= max_retries)
    /\ [](Running => retries \in 0..max_retries)
    /\ []((Running /\ max_retries = 0) =>
              /\ pc \in {"for", "while"}
              /\ calls = Zero
              /\ sleeps = Zero
              /\ writes = Zero)
    /\ [][(pc = "while" /\ pc' = "call") =>
              (retries > 0 /\ retries' < retries)]_vars
    /\ [][(pc = "saving" /\ pc' = "while") => retries' <= retries]_vars

\* a run over two identifiers with max_retries = 0 has completed, after a
\* run that raised in the first iteration of a retry loop
C21_Witness ==
    /\ pc = "done"
    /\ max_retries = 0
    /\ Len(tickers) > 1
    /\ ended = Range(tickers)
    /\ calls = Zero
    /\ prevStatus = "raised"
    /\ prevMaxRetries > 1
    /\ \E t \in Identifier : prevPlan[t] > 0

\* ------------------------------------- get_snp_tickers, save_tickers: claims
\* the first header of some table of the document is 'Ticker symbol'
HasTickerTable(r) ==
    \E n \in DOMAIN r.tables : r.tables[n].header = "Ticker symbol"

\* the rows of the ticker table of the document, in document order
TickerRows(r) ==
    (CHOOSE tb \in Range(r.tables) : tb.header = "Ticker symbol").rows

Ascending(seq) ==
    \A i \in DOMAIN seq : \A j \in DOMAIN seq :
        i < j => ~LexLess(seq[j], seq[i])

\* the number of times x occurs in seq
Occurrences(seq, x) == Cardinality({ n \in DOMAIN seq : seq[n] = x })

SameIdentifiers(a, b) ==
    /\ Len(a) = Len(b)
    /\ \A x \in Range(a) \cup Range(b) : Occurrences(a, x) = Occurrences(b, x)

\* C13: save_tickers on a resolved universe whose size differs from the
\* expected count fails with the cardinality error and leaves the
\* identifier file as it was: no file is created or modified.
C13_BadCountWritesNothing ==
    [][(pc = "resolved" /\ Len(res_arr) # ExpectedCount) =>
          (pc' = "raised" /\ error' = "count" /\ tickers_file' = tickers_file)]_vars

C13_Witness ==
    /\ pc = "raised"
    /\ error = "count"
    /\ Len(res_arr) = ExpectedCount - 1
    /\ tickers_file = tickers_file0

\* C14: whatever order get_snp_tickers returns the universe in, once
\* save_tickers has run the identifier file lists the same identifiers in
\* ascending lexicographic order, and the download loop walks them in that
\* order.
C14_FileIsSorted ==
    /\ pc = "saved" =>
          /\ tickers_file.exists
          /\ Ascending(tickers_file.rows)
          /\ SameIdentifiers(tickers_file.rows, res_arr)
    /\ tickers_file.exists => Ascending(tickers_file.rows)
    /\ \A i \in DOMAIN tickers : \A j \in DOMAIN tickers :
          i < j => tickers[i] <= tickers[j]

C14_Witness ==
    /\ pc = "saved"
    /\ Len(res_arr) > 1
    /\ LexLess(res_arr[2], res_arr[1])
    /\ LexLess(res_arr[Len(res_arr)], res_arr[2])

\* C17: when the document comes back with a status other than 200, or has
\* no ticker table, the resolution raises, and a get_stock_data run with
\* reload_tickers stops there: the identifier file is not written and no
\* series fetch is attempted.
C17_SourceUnavailableStops ==
    (resp # NoDoc /\ pc # "status" /\ (resp.status # 200 \/ ~HasTickerTable(resp)))
        => /\ pc = "raised"
           /\ error \in {"status", "table"}
           /\ tickers_file = tickers_file0
           /\ reached = {}
           /\ calls = Zero
           /\ writes = Zero

C17_Witness ==
    /\ pc = "raised"
    /\ resp.status # 200
    /\ HasTickerTable(resp)
    /\ Len(TickerRows(resp)) = ExpectedCount
    /\ tickers_file0 = OldTickers
    /\ tickers_file = OldTickers

\* C18 as stated: the resolution returns exactly the N rows of the ticker
\* table in document order, each the row's raw token with every comma
\* replaced by a hyphen.
C18_CommasOnly ==
    (pc = "resolved" /\ HasTickerTable(resp)) =>
        /\ Len(res_arr) = Len(TickerRows(resp))
        /\ \A n \in DOMAIN res_arr :
              res_arr[n] = [i \in DOMAIN TickerRows(resp)[n] |->
                               IF TickerRows(resp)[n][i] = "," THEN "-"
                               ELSE TickerRows(resp)[n][i]]

\* C18 amended: the resolution returns exactly the N rows of the ticker
\* table in document order, each the row's raw token with every comma and
\* every period replaced by a hyphen; no identifier has a comma or a period.
C18_CommasAndPeriods ==
    (pc = "resolved" /\ HasTickerTable(resp)) =>
        /\ Len(res_arr) = Len(TickerRows(resp))
        /\ \A n \in DOMAIN res_arr :
              /\ res_arr[n] = [i \in DOMAIN TickerRows(resp)[n] |->
                                  IF TickerRows(resp)[n][i] \in {",", "."} THEN "-"
                                  ELSE TickerRows(resp)[n][i]]
              /\ \A i \in DOMAIN res_arr[n] : res_arr[n][i] \notin {",", "."}

C18_Witness ==
    /\ pc = "resolved"
    /\ Len(res_arr) = ExpectedCount
    /\ TickerRows(resp)[1] = <<"A", ".", "B">>
    /\ TickerRows(resp)[2] = <<"A", ",", "B">>
    /\ res_arr[1] = <<"A", "-", "B">>
    /\ res_arr[2] = <<"A", "-", "B">>

====
